---- MODULE Spec2Model ----
(***************************************************************************)
(* Model of the perioperative pharmacy refill orchestrator:                *)
(*   - AsyncCircuitBreaker (app/safety/circuit_breaker.py),                *)
(*   - PharmacyAgent.validate_safety and its four checks                   *)
(*     (app/agents/pharmacy_agent.py), fed by EHRAgent.fetch_patient_data  *)
(*     (app/agents/ehr_agent.py),                                          *)
(*   - the refill workflow graph (app/state_machine.py).                   *)
(* Three specifications share the module: SpecCB (concurrent calls on one  *)
(* breaker), SpecSafety (one validate_safety invocation, the four checks   *)
(* completing in any order) and SpecWF (one run of the workflow graph).    *)
(***************************************************************************)
EXTENDS Integers, Sequences, FiniteSets, TLC

VARIABLES
    \* ---- AsyncCircuitBreaker instance fields
    state,              \* self.state
    failure_count,      \* self.failure_count
    last_failure_time,  \* self.last_failure_time (NoTime models None)
    \* ---- environment of the breaker
    now,                \* time.time()
    pc,                 \* per caller: "idle" or "running" (operation in flight)
    outcome,            \* per caller: how its latest call() ended
    attempts,           \* per caller: invocations of func in its latest call()
    ncalls,             \* number of call() invocations made so far
    transitions,        \* history: the <<from, to>> changes of self.state seen so far
    admitted_in,        \* history, per caller: self.state when its running call started func
    \* ---- one validate_safety invocation and what it reads
    ehr,                \* what the FHIR server holds and which queries succeed
    patient_data,       \* the dict returned by EHRAgent.fetch_patient_data
    drug_info,          \* the formulary metadata returned by lookup_drug
    requested_dose,     \* entities['dose']
    xref,               \* answer of the allergy cross-reference index
    ddi_db,             \* answer of the drug-interaction index, per medication
    gathered,           \* asyncio.gather slots, in argument order
    safety,             \* what validate_safety returned or raised
    \* ---- one run of the workflow graph (RefillState and the graph position)
    node,               \* the node to run next, "END", or "raised" when an exception escaped
    intents,            \* state['intents']
    confidence,         \* state['confidence_scores']['intent'], in percent
    entities,           \* the keys of state['entities']
    safety_checks,      \* state['safety_checks']
    escalation_required,\* state['escalation_required']
    current_step,       \* state['current_step']
    via,                \* the routing key that led to the current node
    error,              \* the exception that escaped the run, if any
    steps,              \* nodes executed in this run
    failed_fetches,     \* history: consecutive failed patient-data fetches of the process
    calls               \* history: process_refill_request calls made for this conversation_id

cbVars == <<state, failure_count, last_failure_time, now, pc, outcome, attempts, ncalls,
            transitions, admitted_in>>

saVars == <<ehr, patient_data, drug_info, requested_dose, xref, ddi_db, gathered, safety>>

wfVars == <<node, intents, confidence, entities, safety_checks, escalation_required,
            current_step, via, error, steps, failed_fetches, calls>>

vars == <<cbVars, saVars, wfVars>>

----------------------------------------------------------------------------
(* Bounds *)
NumCallers == 2     \* concurrent callers of one breaker
MaxCalls == 7       \* call() invocations explored
MaxTime == 60       \* last clock value explored
TickStep == 15      \* clock granularity

FormularyMin == 5   \* min_dose of the formulary entry explored, in dose units
FormularyMax == 10  \* max_dose of the formulary entry explored, in dose units
MaxSteps == 6       \* nodes executed in one run of the graph
MaxFailedFetches == 6 \* consecutive failed fetches explored over successive runs
MaxTriggerCalls == 2 \* process_refill_request calls explored for one conversation_id

(* Program constants *)
failure_threshold == 5
recovery_timeout == 30
confidence_threshold == 70      \* 0.70, in percent
formulary_score_threshold == 75 \* 0.75, in percent

----------------------------------------------------------------------------
(* AsyncCircuitBreaker *)

CLOSED == "closed"
OPEN == "open"
HALF_OPEN == "half_open"
CircuitState == {CLOSED, OPEN, HALF_OPEN}

NoTime == -1
NotAdmitted == "-"
Callers == 1..NumCallers
Failures == {"TimeoutError", "Exception"}

NoOutcome == [kind |-> "none", cause |-> "-"]
Returned == [kind |-> "result", cause |-> "-"]
FailFast == [kind |-> "CircuitBreakerOpenError", cause |-> "-"]
\* mutant: the open error is raised without "from e"
Tripped_without_cause(e) == [kind |-> "CircuitBreakerOpenError", cause |-> "-"]
Tripped(e) == [kind |-> "CircuitBreakerOpenError", cause |-> e]
Reraised(e) == [kind |-> e, cause |-> "-"]

\* mutant: the recovery window is never checked
should_attempt_reset_always(lft, t) == TRUE

\* mutant: the recovery window must be strictly exceeded
should_attempt_reset_strict(lft, t) ==
    IF lft = NoTime THEN TRUE ELSE (t - lft) > recovery_timeout

should_attempt_reset(lft, t) ==
    IF lft = NoTime THEN TRUE ELSE (t - lft) >= recovery_timeout

\* mutant: the breaker opens one failure late
threshold_reached_late(fc) == fc > failure_threshold

threshold_reached(fc) == fc >= failure_threshold

\* mutant: any success closes the breaker
state_after_success_any(s) == CLOSED

state_after_success(s) == IF s = HALF_OPEN THEN CLOSED ELSE s

Observe(s, t) == IF s = t THEN transitions ELSE transitions \cup {<<s, t>>}

\* mutant: the lock is kept while func runs, so a call waits for the one in flight
CallEnter_lock_across_operation(p) ==
    /\ \A q \in Callers : pc[q] = "idle"
    /\ ncalls < MaxCalls
    /\ ncalls' = ncalls + 1
    /\ IF state = OPEN /\ ~should_attempt_reset(last_failure_time, now)
       THEN /\ outcome' = [outcome EXCEPT ![p] = FailFast]
            /\ attempts' = [attempts EXCEPT ![p] = 0]
            /\ UNCHANGED <<state, pc, admitted_in>>
       ELSE /\ state' = IF state = OPEN THEN HALF_OPEN ELSE state
            /\ admitted_in' = [admitted_in EXCEPT ![p] = state']
            /\ pc' = [pc EXCEPT ![p] = "running"]
            /\ attempts' = [attempts EXCEPT ![p] = 1]
            /\ outcome' = [outcome EXCEPT ![p] = NoOutcome]
    /\ transitions' = Observe(state, state')
    /\ UNCHANGED <<failure_count, last_failure_time, now>>
    /\ UNCHANGED <<saVars, wfVars>>

\* mutant: a call that finds the breaker HALF_OPEN fails fast
CallEnter_single_trial(p) ==
    /\ pc[p] = "idle"
    /\ ncalls < MaxCalls
    /\ ncalls' = ncalls + 1
    /\ IF \/ state = OPEN /\ ~should_attempt_reset(last_failure_time, now)
          \/ state = HALF_OPEN
       THEN /\ outcome' = [outcome EXCEPT ![p] = FailFast]
            /\ attempts' = [attempts EXCEPT ![p] = 0]
            /\ UNCHANGED <<state, pc, admitted_in>>
       ELSE /\ state' = IF state = OPEN THEN HALF_OPEN ELSE state
            /\ admitted_in' = [admitted_in EXCEPT ![p] = state']
            /\ pc' = [pc EXCEPT ![p] = "running"]
            /\ attempts' = [attempts EXCEPT ![p] = 1]
            /\ outcome' = [outcome EXCEPT ![p] = NoOutcome]
    /\ transitions' = Observe(state, state')
    /\ UNCHANGED <<failure_count, last_failure_time, now>>
    /\ UNCHANGED <<saVars, wfVars>>

\* call(): the first locked block, then func is started (or the call fails fast)
CallEnter(p) ==
    /\ pc[p] = "idle"
    /\ ncalls < MaxCalls
    /\ ncalls' = ncalls + 1
    /\ IF state = OPEN /\ ~should_attempt_reset(last_failure_time, now)
       THEN /\ outcome' = [outcome EXCEPT ![p] = FailFast]
            /\ attempts' = [attempts EXCEPT ![p] = 0]
            /\ UNCHANGED <<state, pc, admitted_in>>
       ELSE /\ state' = IF state = OPEN THEN HALF_OPEN ELSE state
            /\ admitted_in' = [admitted_in EXCEPT ![p] = state']
            /\ pc' = [pc EXCEPT ![p] = "running"]
            /\ attempts' = [attempts EXCEPT ![p] = 1]
            /\ outcome' = [outcome EXCEPT ![p] = NoOutcome]
    /\ transitions' = Observe(state, state')
    /\ UNCHANGED <<failure_count, last_failure_time, now>>
    /\ UNCHANGED <<saVars, wfVars>>

\* mutant: a success leaves failure_count as it is
OpSuccess_keeps_count(p) ==
    /\ pc[p] = "running"
    /\ state' = state_after_success(state)
    /\ failure_count' = failure_count
    /\ pc' = [pc EXCEPT ![p] = "idle"]
    /\ admitted_in' = [admitted_in EXCEPT ![p] = NotAdmitted]
    /\ outcome' = [outcome EXCEPT ![p] = Returned]
    /\ transitions' = Observe(state, state')
    /\ UNCHANGED <<last_failure_time, now, attempts, ncalls>>
    /\ UNCHANGED <<saVars, wfVars>>

\* call(): func returned within the timeout; the success block
OpSuccess(p) ==
    /\ pc[p] = "running"
    /\ state' = state_after_success(state)
    /\ failure_count' = 0
    /\ pc' = [pc EXCEPT ![p] = "idle"]
    /\ admitted_in' = [admitted_in EXCEPT ![p] = NotAdmitted]
    /\ outcome' = [outcome EXCEPT ![p] = Returned]
    /\ transitions' = Observe(state, state')
    /\ UNCHANGED <<last_failure_time, now, attempts, ncalls>>
    /\ UNCHANGED <<saVars, wfVars>>

\* call(): func timed out or raised; the except block
OpFailure(p) ==
    /\ pc[p] = "running"
    /\ \E e \in Failures :
          /\ failure_count' = failure_count + 1
          /\ last_failure_time' = now
          /\ IF threshold_reached(failure_count + 1)
             THEN /\ state' = OPEN
                  /\ outcome' = [outcome EXCEPT ![p] = Tripped(e)]
             ELSE /\ state' = state
                  /\ outcome' = [outcome EXCEPT ![p] = Reraised(e)]
    /\ pc' = [pc EXCEPT ![p] = "idle"]
    /\ admitted_in' = [admitted_in EXCEPT ![p] = NotAdmitted]
    /\ transitions' = Observe(state, state')
    /\ UNCHANGED <<now, attempts, ncalls>>
    /\ UNCHANGED <<saVars, wfVars>>

\* time passes
Tick ==
    /\ now + TickStep <= MaxTime
    /\ now' = now + TickStep
    /\ UNCHANGED <<state, failure_count, last_failure_time, pc, outcome, attempts, ncalls,
                   transitions, admitted_in>>
    /\ UNCHANGED <<saVars, wfVars>>

\* a breaker as __init__ leaves it, and no call made yet
BreakerFresh ==
    /\ state = CLOSED
    /\ failure_count = 0
    /\ last_failure_time = NoTime
    /\ now = 0
    /\ pc = [p \in Callers |-> "idle"]
    /\ outcome = [p \in Callers |-> NoOutcome]
    /\ attempts = [p \in Callers |-> 0]
    /\ ncalls = 0
    /\ transitions = {}
    /\ admitted_in = [p \in Callers |-> NotAdmitted]

----------------------------------------------------------------------------
(* EHRAgent.fetch_patient_data and the data the safety checks read *)

Absent == "<absent>"        \* a key the dict does not have
NoneValue == "<None>"       \* Python None

Substances == {"Penicillin"}
Medications == {"warfarin"}
IngredientLists == {{"penicillin"}, {"lisinopril"}}
Schedules == {"II", "III", "IV", NoneValue}

\* str.lower()
Lower(s) == IF s = "Penicillin" THEN "penicillin" ELSE s

\* what the FHIR server holds, and whether the AllergyIntolerance and
\* MedicationStatement queries succeed (Patient and Observation are taken to succeed)
EHRRecords ==
    [allergies : SUBSET Substances, allergies_ok : BOOLEAN,
     medications : SUBSET Medications, medications_ok : BOOLEAN]

fetch_patient_data(rec) ==
    [allergies |-> IF rec.allergies_ok THEN rec.allergies ELSE {},
     active_medications |-> IF rec.medications_ok THEN rec.medications ELSE {},
     data_complete |-> rec.allergies_ok /\ rec.medications_ok]

\* result[0]['metadata'] of the formulary index: a dict, or None
DrugInfos ==
    [active_ingredients : IngredientLists, dea_schedule : Schedules,
     min_dose : {FormularyMin}, max_dose : {FormularyMax}, is_none : BOOLEAN]

\* requested doses: "10mg", "4mg", "50mcg", "7.5 mg", "10mL", "abc", and a
\* value that is not a string
Str(cs) == [is_str |-> TRUE, chars |-> cs]
NotAString == [is_str |-> FALSE, chars |-> <<>>]
DoseInputs ==
    {Str(<<"1", "0", "m", "g">>), Str(<<"4", "m", "g">>),
     Str(<<"5", "0", "m", "c", "g">>), Str(<<"7", ".", "5", " ", "m", "g">>),
     Str(<<"1", "0", "m", "L">>), Str(<<"a", "b", "c">>), NotAString}

XrefAnswers == {"hit", "miss", "raise"}
DDIAnswers == {"major", "moderate", "minor", "low_score", "raise"}

----------------------------------------------------------------------------
(* PharmacyAgent: the four checks *)

\* a check's dict (exception = ""), or the exception it raised
Dict(c, sev, sched, rec) ==
    [exception |-> "", check |-> c, severity |-> sev, schedule |-> sched,
     recommendation |-> rec, error |-> Absent]
Raised(e) ==
    [exception |-> e, check |-> Absent, severity |-> Absent, schedule |-> Absent,
     recommendation |-> Absent, error |-> Absent]
Pending == Raised("<pending>")

check_cross_sensitivity(allergies, xr) ==
    IF allergies = {} THEN "None"
    ELSE IF xr = "raise" THEN "raise"
    ELSE IF xr = "hit" THEN "content"
    ELSE "None"

check_allergies(pd, di, xr) ==
    IF di.is_none THEN Raised("AttributeError")
    ELSE IF \E a \in pd.allergies : Lower(a) \in {Lower(i) : i \in di.active_ingredients}
         THEN Dict("allergy", "major", Absent, "BLOCK: Do not dispense")
    ELSE LET cross == check_cross_sensitivity(pd.allergies, xr) IN
         IF cross = "raise" THEN Raised("VectorStoreError")
         ELSE IF cross # "None"
              THEN Dict("allergy", "moderate", Absent, "Escalate to physician for review")
         ELSE Dict("allergy", "none", Absent, Absent)

\* the severities of the interactions found; failed when a vector search raises
query_interaction_db(meds, db) ==
    [failed |-> \E m \in meds : db[m] = "raise",
     found |-> {db[m] : m \in {x \in meds : db[x] \notin {"low_score", "raise"}}}]

check_drug_interactions(pd, di, db) ==
    IF pd.active_medications = {} THEN Dict("ddi", "none", Absent, Absent)
    ELSE IF di.is_none THEN Raised("TypeError")
    ELSE LET interactions == query_interaction_db(pd.active_medications, db) IN
         IF interactions.failed THEN Raised("VectorStoreError")
         ELSE IF "major" \in interactions.found
              THEN Dict("ddi", "major", Absent, "BLOCK: Do not dispense")
         ELSE IF "moderate" \in interactions.found
              THEN Dict("ddi", "moderate", Absent, "Escalate for physician review")
         ELSE Dict("ddi", "none", Absent, Absent)

Digits == {"0", "1", "2", "3", "4", "5", "6", "7", "8", "9"}
DigitVal(c) ==
    CASE c = "0" -> 0 [] c = "1" -> 1 [] c = "2" -> 2 [] c = "3" -> 3 [] c = "4" -> 4
      [] c = "5" -> 5 [] c = "6" -> 6 [] c = "7" -> 7 [] c = "8" -> 8 [] c = "9" -> 9

\* number of consecutive characters of cs, from position i on, that lie in set
RECURSIVE Run(_, _, _)
Run(cs, i, set) ==
    IF i > Len(cs) \/ cs[i] \notin set THEN 0 ELSE 1 + Run(cs, i + 1, set)

\* the decimal number written by cs[i..j]
RECURSIVE Number(_, _, _)
Number(cs, i, j) ==
    IF j < i THEN 0 ELSE 10 * Number(cs, i, j - 1) + DigitVal(cs[j])

RECURSIVE Pow10(_)
Pow10(n) == IF n = 0 THEN 1 ELSE 10 * Pow10(n - 1)

HasAt(cs, i, word) ==
    /\ i + Len(word) - 1 <= Len(cs)
    /\ \A k \in 1..Len(word) : cs[i + k - 1] = word[k]

\* re.match(r'(\d+(?:\.\d+)?)\s*(mg|mcg|g)', s): the value as num/den, or no match
dose_match(cs) ==
    LET n1 == Run(cs, 1, Digits)
        n2 == IF n1 + 1 <= Len(cs) /\ cs[n1 + 1] = "." THEN Run(cs, n1 + 2, Digits) ELSE 0
        endnum == IF n2 > 0 THEN n1 + 1 + n2 ELSE n1
        ws == Run(cs, endnum + 1, {" "})
        u == endnum + ws + 1
        unit == IF HasAt(cs, u, <<"m", "g">>) THEN "mg"
                ELSE IF HasAt(cs, u, <<"m", "c", "g">>) THEN "mcg"
                ELSE IF HasAt(cs, u, <<"g">>) THEN "g"
                ELSE Absent
    IN IF n1 = 0 \/ unit = Absent
       THEN [matched |-> FALSE, num |-> 0, den |-> 1, unit |-> Absent]
       ELSE [matched |-> TRUE,
             num |-> Number(cs, 1, n1) * Pow10(n2) + Number(cs, n1 + 2, n1 + 1 + n2),
             den |-> Pow10(n2), unit |-> unit]

check_dosage(di, dose) ==
    IF ~dose.is_str THEN Raised("TypeError")
    ELSE LET m == dose_match(dose.chars) IN
         IF ~m.matched THEN Dict("dosage", "error", Absent, Absent)
         ELSE IF di.is_none THEN Raised("AttributeError")
         ELSE IF m.num < di.min_dose * m.den \/ m.num > di.max_dose * m.den
              THEN Dict("dosage", "moderate", Absent, "Escalate for physician review")
         ELSE Dict("dosage", "none", Absent, Absent)

check_controlled_substance(di) ==
    IF di.is_none THEN Raised("AttributeError")
    ELSE IF di.dea_schedule \in {"II", "III", "IV"}
         THEN Dict("controlled_substance", "moderate", di.dea_schedule,
                   "Requires physician co-signature")
    ELSE Dict("controlled_substance", "none", Absent, Absent)

----------------------------------------------------------------------------
(* PharmacyAgent.validate_safety: the aggregation after the gather *)

ErrorFinding(c, e) ==
    [exception |-> "", check |-> c, severity |-> Absent, schedule |-> Absent,
     recommendation |-> Absent, error |-> e]

RECURSIVE generate_recommendations(_)
generate_recommendations(findings) ==
    IF findings = <<>> THEN <<>>
    ELSE LET rest == generate_recommendations(Tail(findings)) IN
         IF Head(findings).recommendation # Absent
         THEN <<Head(findings).recommendation>> \o rest
         ELSE rest

NotRun ==
    [status |-> "not_run", exception |-> "", passed |-> FALSE, blocked |-> FALSE,
     escalation_required |-> FALSE, findings |-> <<>>, recommendations |-> <<>>]
SafetyRaised(e) == [NotRun EXCEPT !.status = "raised", !.exception = e]
SafetyResult(p, b, e, f, r) ==
    [status |-> "returned", exception |-> "", passed |-> p, blocked |-> b,
     escalation_required |-> e, findings |-> f, recommendations |-> r]

\* the accumulators (blocked, escalation_required, findings) after one check's branch
allergy_branch(acc, c) ==
    IF c.exception # ""
    THEN [blocked |-> TRUE, escalation |-> acc.escalation,
          findings |-> Append(acc.findings, ErrorFinding("allergy", c.exception))]
    ELSE IF c.severity = "major"
    THEN [blocked |-> TRUE, escalation |-> acc.escalation, findings |-> Append(acc.findings, c)]
    ELSE IF c.severity = "moderate"
    THEN [blocked |-> acc.blocked, escalation |-> TRUE, findings |-> Append(acc.findings, c)]
    ELSE acc

\* mutant: a major interaction only escalates
ddi_branch_major_escalates(acc, c) ==
    IF c.exception # ""
    THEN [acc EXCEPT !.findings = Append(acc.findings, ErrorFinding("ddi", c.exception))]
    ELSE IF c.severity \in {"major", "moderate"}
    THEN [blocked |-> acc.blocked, escalation |-> TRUE, findings |-> Append(acc.findings, c)]
    ELSE acc

ddi_branch(acc, c) ==
    IF c.exception # ""
    THEN [acc EXCEPT !.findings = Append(acc.findings, ErrorFinding("ddi", c.exception))]
    ELSE IF c.severity = "major"
    THEN [blocked |-> TRUE, escalation |-> acc.escalation, findings |-> Append(acc.findings, c)]
    ELSE IF c.severity = "moderate"
    THEN [blocked |-> acc.blocked, escalation |-> TRUE, findings |-> Append(acc.findings, c)]
    ELSE acc

controlled_branch(acc, c) ==
    IF c.exception # ""
    THEN [acc EXCEPT !.findings = Append(acc.findings, ErrorFinding("controlled", c.exception))]
    ELSE IF c.schedule \in {"II", "III"}
    THEN [blocked |-> acc.blocked, escalation |-> TRUE, findings |-> Append(acc.findings, c)]
    ELSE acc

\* controlled_check['schedule'] on a dict that has no such key
controlled_key_error(c) == c.exception = "" /\ c.schedule = Absent

validate_safety(allergy_check, ddi_check, dosage_check, controlled_check) ==
    LET acc0 == [blocked |-> FALSE, escalation |-> FALSE, findings |-> <<>>]
        acc1 == allergy_branch(acc0, allergy_check)
        acc2 == ddi_branch(acc1, ddi_check)
        acc3 == controlled_branch(acc2, controlled_check)
    IN IF controlled_key_error(controlled_check)
       THEN SafetyRaised("KeyError")
       ELSE SafetyResult(~acc3.blocked, acc3.blocked, acc3.escalation, acc3.findings,
                         generate_recommendations(acc3.findings))

NothingGathered == <<Pending, Pending, Pending, Pending>>

\* the state of this part before any validate_safety call
SafetyIdle ==
    /\ ehr = [allergies |-> {}, allergies_ok |-> TRUE, medications |-> {},
              medications_ok |-> TRUE]
    /\ patient_data = fetch_patient_data(ehr)
    /\ drug_info = [active_ingredients |-> {"lisinopril"}, dea_schedule |-> NoneValue,
                    min_dose |-> FormularyMin, max_dose |-> FormularyMax, is_none |-> FALSE]
    /\ requested_dose = Str(<<"1", "0", "m", "g">>)
    /\ xref = "miss"
    /\ ddi_db = [m \in Medications |-> "low_score"]
    /\ gathered = NothingGathered
    /\ safety = NotRun

----------------------------------------------------------------------------
(* The workflow graph: RefillState, nodes and routing functions *)

END == "END"
Intents == {"RequestRefill", "CancelRequest", "StatusInquiry", "Clarification"}
ConfidenceValues == {40, 69, 70, 100}
RequiredSlots == {"patient_id", "drug_name", "dose", "quantity"}
NoConfidence == -1      \* confidence_scores has no 'intent' key yet

\* initial_state of process_refill_request, positioned at the entry point
WorkflowIdle ==
    /\ node = "collect_request"
    /\ intents = <<>>
    /\ confidence = NoConfidence
    /\ entities = {}
    /\ safety_checks = NotRun
    /\ escalation_required = FALSE
    /\ current_step = "initial"
    /\ via = "entry"
    /\ error = ""
    /\ steps = 0
    /\ failed_fetches = 0
    /\ calls = 1

\* mutant: a confidence of exactly the threshold is rejected too
below_threshold_inclusive(c) == c <= confidence_threshold

below_threshold(c) == c < confidence_threshold

route_by_intent(intent, c) ==
    IF below_threshold(c) THEN "circuit_breaker"
    ELSE IF intent = "RequestRefill" THEN "extract_entities"
    ELSE IF intent = "CancelRequest" THEN END
    ELSE "clarify"

\* mutant: quantity is not among the slots that are checked
check_slot_completeness_no_quantity(keys) ==
    IF {sl \in RequiredSlots \ {"quantity"} : sl \notin keys} # {}
    THEN "clarify" ELSE "safety_check"

check_slot_completeness(keys) ==
    IF {sl \in RequiredSlots : sl \notin keys} # {} THEN "clarify" ELSE "safety_check"

check_safety_result(sc, esc) ==
    IF sc.blocked THEN "safe_exit"
    ELSE IF esc THEN "escalate"
    ELSE "dispense"

\* the path maps given to add_conditional_edges
classify_intent_edges ==
    [extract_entities |-> "extract_entities", circuit_breaker |-> END,
     clarify |-> "collect_request"]
extract_entities_edges ==
    [clarify |-> "collect_request", safety_check |-> "safety_check"]
safety_check_edges ==
    [escalate |-> "escalate", dispense |-> "dispense", safe_exit |-> END]

\* the graph looks the routing key up in the path map; a key the map lacks is a KeyError
Follows(edges, key) ==
    IF key \in DOMAIN edges
    THEN /\ node' = edges[key]
         /\ error' = ""
    ELSE /\ node' = "raised"
         /\ error' = "KeyError"

\* an exception raised inside a node escapes graph.ainvoke
NodeRaises(e) ==
    /\ node' = "raised"
    /\ error' = e

Running(n) ==
    /\ node = n
    /\ steps < MaxSteps
    /\ steps' = steps + 1

\* collect_refill_request, then the edge to classify_intent
CollectRequest ==
    /\ Running("collect_request")
    /\ \/ /\ current_step' = "collect_request"
          /\ node' = "classify_intent"
          /\ via' = "edge"
          /\ error' = ""
       \/ /\ NodeRaises("OrchestratorError")
          /\ UNCHANGED <<current_step, via>>
    /\ UNCHANGED <<intents, confidence, entities, safety_checks, escalation_required,
                   failed_fetches, calls>>
    /\ UNCHANGED <<cbVars, saVars>>

\* classify_intent_node, then route_by_intent. The classifier behind
\* orchestrator.classify_intent is an external service: any intent of the
\* IntentResult literal with any confidence, or a failure.
ClassifyIntent ==
    /\ Running("classify_intent")
    /\ \/ \E intent \in Intents, c \in ConfidenceValues :
             /\ intents' = Append(intents, intent)
             /\ confidence' = c
             /\ current_step' = "intent_classified"
             /\ via' = route_by_intent(intent, c)
             /\ Follows(classify_intent_edges, route_by_intent(intent, c))
       \/ /\ NodeRaises("OrchestratorError")
          /\ UNCHANGED <<intents, confidence, current_step, via>>
    /\ UNCHANGED <<entities, safety_checks, escalation_required, failed_fetches, calls>>
    /\ UNCHANGED <<cbVars, saVars>>

\* extract_entities_node, then check_slot_completeness. The extractor may
\* return any subset of the slots, or fail.
ExtractEntities ==
    /\ Running("extract_entities")
    /\ \/ \E extracted \in SUBSET RequiredSlots :
             /\ entities' = entities \cup extracted
             /\ current_step' = "entities_extracted"
             /\ via' = check_slot_completeness(entities \cup extracted)
             /\ Follows(extract_entities_edges, check_slot_completeness(entities \cup extracted))
       \/ /\ NodeRaises("OrchestratorError")
          /\ UNCHANGED <<entities, current_step, via>>
    /\ UNCHANGED <<intents, confidence, safety_checks, escalation_required, failed_fetches,
                   calls>>
    /\ UNCHANGED <<cbVars, saVars>>

\* lookup_drug on the answer of the formulary index
FormularyAnswers ==
    {[hits |-> 0, score |-> 0], [hits |-> 1, score |-> formulary_score_threshold - 1],
     [hits |-> 1, score |-> formulary_score_threshold]}
lookup_drug_fails(ans) == ans.hits = 0 \/ ans.score < formulary_score_threshold

\* what call() on a newly built breaker does with the operation's outcome
FreshBreakerCall(op) ==
    /\ ncalls' = 1
    /\ attempts' = [attempts EXCEPT ![1] = 1]
    /\ pc' = [p \in Callers |-> "idle"]
    /\ admitted_in' = [p \in Callers |-> NotAdmitted]
    /\ now' = now
    /\ IF op = "returned"
       THEN /\ state' = state_after_success(CLOSED)
            /\ failure_count' = 0
            /\ last_failure_time' = NoTime
            /\ outcome' = [p \in Callers |-> IF p = 1 THEN Returned ELSE NoOutcome]
       ELSE /\ failure_count' = 1
            /\ last_failure_time' = now
            /\ state' = IF threshold_reached(1) THEN OPEN ELSE CLOSED
            /\ outcome' = [p \in Callers |->
                             IF p # 1 THEN NoOutcome
                             ELSE IF threshold_reached(1) THEN Tripped(op) ELSE Reraised(op)]
    /\ transitions' = Observe(CLOSED, state')
    /\ failed_fetches' = IF op = "returned" THEN 0 ELSE failed_fetches + 1

\* perform_safety_checks: the gather of fetch_patient_data and lookup_drug,
\* validate_safety, and the writes to the state
SafetyCheck ==
    /\ Running("safety_check")
    /\ \/ \* the gather raises: the patient fetch or the drug lookup failed
          \E op \in {"returned"} \cup Failures, ans \in FormularyAnswers :
             /\ op # "returned" \/ lookup_drug_fails(ans)
             /\ FreshBreakerCall(op)
             /\ \/ op # "returned" /\ NodeRaises(outcome'[1].kind)
                \/ lookup_drug_fails(ans) /\ NodeRaises("ValueError")
             /\ UNCHANGED <<saVars, safety_checks, current_step, via>>
       \/ \* both return; validate_safety runs on what they returned
          \E rec \in EHRRecords, di \in DrugInfos, dose \in DoseInputs,
             xr \in XrefAnswers, db \in [Medications -> DDIAnswers] :
             LET pd == fetch_patient_data(rec)
                 g == <<check_allergies(pd, di, xr), check_drug_interactions(pd, di, db),
                        check_dosage(di, dose), check_controlled_substance(di)>>
                 result == validate_safety(g[1], g[2], g[3], g[4])
             IN /\ FreshBreakerCall("returned")
                /\ ehr' = rec
                /\ patient_data' = pd
                /\ drug_info' = di
                /\ requested_dose' = dose
                /\ xref' = xr
                /\ ddi_db' = db
                /\ gathered' = g
                /\ safety' = result
                /\ IF result.status = "raised"
                   THEN /\ NodeRaises(result.exception)
                        /\ UNCHANGED safety_checks
                   ELSE \* state['safety_checks'] is assigned, then
                        \* safety_result.get(...) is called on the dataclass
                        /\ safety_checks' = result
                        /\ NodeRaises("AttributeError")
                /\ UNCHANGED <<current_step, via>>
    /\ UNCHANGED <<intents, confidence, entities, escalation_required, calls>>

InitWF ==
    /\ BreakerFresh
    /\ SafetyIdle
    /\ WorkflowIdle

NextWF ==
    \/ CollectRequest
    \/ ClassifyIntent
    \/ ExtractEntities
    \/ SafetyCheck

SpecWF == InitWF /\ [][NextWF]_vars

----------------------------------------------------------------------------
(* Specification of repeated calls of the workflow trigger for one conversation *)

RunOver == node \in {END, "raised"}

\* process_refill_request called again once the previous call is over: the
\* graph is compiled without a checkpointer and initial_state is built anew,
\* nothing is looked up by conversation_id; the agents of the previous run
\* are unreachable
process_refill_request ==
    /\ RunOver
    /\ calls < MaxTriggerCalls
    /\ calls' = calls + 1
    /\ node' = "collect_request"
    /\ intents' = <<>>
    /\ confidence' = NoConfidence
    /\ entities' = {}
    /\ safety_checks' = NotRun
    /\ escalation_required' = FALSE
    /\ current_step' = "initial"
    /\ via' = "entry"
    /\ error' = ""
    /\ steps' = 0
    /\ UNCHANGED failed_fetches
    \* no breaker and no validate_safety invocation yet in this call
    /\ state' = CLOSED
    /\ failure_count' = 0
    /\ last_failure_time' = NoTime
    /\ pc' = [p \in Callers |-> "idle"]
    /\ outcome' = [p \in Callers |-> NoOutcome]
    /\ attempts' = [p \in Callers |-> 0]
    /\ ncalls' = 0
    /\ transitions' = {}
    /\ admitted_in' = [p \in Callers |-> NotAdmitted]
    /\ ehr' = [allergies |-> {}, allergies_ok |-> TRUE, medications |-> {},
               medications_ok |-> TRUE]
    /\ patient_data' = fetch_patient_data(ehr')
    /\ drug_info' = [active_ingredients |-> {"lisinopril"}, dea_schedule |-> NoneValue,
                     min_dose |-> FormularyMin, max_dose |-> FormularyMax, is_none |-> FALSE]
    /\ requested_dose' = Str(<<"1", "0", "m", "g">>)
    /\ xref' = "miss"
    /\ ddi_db' = [m \in Medications |-> "low_score"]
    /\ gathered' = NothingGathered
    /\ safety' = NotRun
    /\ UNCHANGED now

NextCalls ==
    \/ NextWF
    \/ process_refill_request

SpecCalls == InitWF /\ [][NextCalls]_vars

----------------------------------------------------------------------------
(* Specification of the patient-data fetches of successive workflow runs *)

\* one run of process_refill_request that reaches perform_safety_checks, as the
\* process sees it once the run is over: the node builds EHRAgent(), whose
\* __init__ builds the breaker, and awaits fetch_patient_data once; the
\* RefillState and the agents of the run are dropped with it
RunFetch(op) ==
    /\ op = "returned" \/ failed_fetches < MaxFailedFetches
    /\ FreshBreakerCall(op)
    /\ UNCHANGED <<node, intents, confidence, entities, safety_checks, escalation_required,
                   current_step, via, error, steps, calls>>
    /\ UNCHANGED saVars

InitRuns ==
    /\ BreakerFresh
    /\ SafetyIdle
    /\ WorkflowIdle

NextRuns ==
    \/ \E op \in {"returned"} \cup Failures : RunFetch(op)
    \/ Tick

SpecRuns == InitRuns /\ [][NextRuns]_vars

----------------------------------------------------------------------------
(* Specification of one validate_safety invocation *)

\* mutant: the outcomes are collected in the order the checks complete
CheckCompletes_in_arrival_order(i, result) ==
    /\ safety.status = "not_run"
    /\ gathered[i] = Pending
    /\ LET first == CHOOSE k \in 1..4 :
                        /\ gathered[k] = Pending
                        /\ \A j \in 1..(k - 1) : gathered[j] # Pending
       IN gathered' = [gathered EXCEPT ![first] = result]
    /\ UNCHANGED <<ehr, patient_data, drug_info, requested_dose, xref, ddi_db, safety>>
    /\ UNCHANGED <<cbVars, wfVars>>

\* mutant: gather without return_exceptions, a raising check cancels its siblings
CheckCompletes_cancels_siblings(i, result) ==
    /\ safety.status = "not_run"
    /\ gathered[i] = Pending
    /\ gathered' = [k \in 1..4 |->
                      IF k = i THEN result
                      ELSE IF result.exception # "" /\ gathered[k] = Pending
                      THEN Raised("CancelledError")
                      ELSE gathered[k]]
    /\ UNCHANGED <<ehr, patient_data, drug_info, requested_dose, xref, ddi_db, safety>>
    /\ UNCHANGED <<cbVars, wfVars>>

\* asyncio.gather: one check completes and its outcome fills its slot
CheckCompletes(i, result) ==
    /\ safety.status = "not_run"
    /\ gathered[i] = Pending
    /\ gathered' = [gathered EXCEPT ![i] = result]
    /\ UNCHANGED <<ehr, patient_data, drug_info, requested_dose, xref, ddi_db, safety>>
    /\ UNCHANGED <<cbVars, wfVars>>

CheckAllergies == CheckCompletes(1, check_allergies(patient_data, drug_info, xref))

CheckDrugInteractions ==
    CheckCompletes(2, check_drug_interactions(patient_data, drug_info, ddi_db))

CheckDosage == CheckCompletes(3, check_dosage(drug_info, requested_dose))

CheckControlledSubstance == CheckCompletes(4, check_controlled_substance(drug_info))

\* validate_safety after the gather has returned
Aggregate ==
    /\ safety.status = "not_run"
    /\ \A i \in 1..4 : gathered[i] # Pending
    /\ safety' = validate_safety(gathered[1], gathered[2], gathered[3], gathered[4])
    /\ UNCHANGED <<ehr, patient_data, drug_info, requested_dose, xref, ddi_db, gathered>>
    /\ UNCHANGED <<cbVars, wfVars>>

InitSafety ==
    /\ BreakerFresh
    /\ ehr \in EHRRecords
    /\ patient_data = fetch_patient_data(ehr)
    /\ drug_info \in DrugInfos
    /\ requested_dose \in DoseInputs
    /\ xref \in XrefAnswers
    /\ ddi_db \in [Medications -> DDIAnswers]
    /\ gathered = NothingGathered
    /\ safety = NotRun
    /\ WorkflowIdle

NextSafety ==
    \/ CheckAllergies
    \/ CheckDrugInteractions
    \/ CheckDosage
    \/ CheckControlledSubstance
    \/ Aggregate

SpecSafety == InitSafety /\ [][NextSafety]_vars

----------------------------------------------------------------------------
(* Specification of one breaker under concurrent calls *)

InitCB ==
    /\ BreakerFresh
    /\ SafetyIdle
    /\ WorkflowIdle

NextCB ==
    \/ \E p \in Callers : CallEnter(p)
    \/ \E p \in Callers : OpSuccess(p)
    \/ \E p \in Callers : OpFailure(p)
    \/ Tick

SpecCB == InitCB /\ [][NextCB]_vars

TypeOKCB ==
    /\ state \in CircuitState
    /\ failure_count \in 0..MaxCalls
    /\ last_failure_time \in {NoTime} \cup 0..MaxTime
    /\ now \in 0..MaxTime
    /\ pc \in [Callers -> {"idle", "running"}]
    /\ ncalls \in 0..MaxCalls

----------------------------------------------------------------------------
(* Properties of the breaker, checked under SpecCB *)

WithinRecoveryWindow ==
    last_failure_time # NoTime /\ (now - last_failure_time) < recovery_timeout

RecoveryWindowElapsed ==
    last_failure_time # NoTime /\ (now - last_failure_time) >= recovery_timeout

\* C1: a call made while the breaker is OPEN and less than recovery_timeout has
\* elapsed since last_failure_time fails with CircuitBreakerOpenError, does not
\* invoke the wrapped operation, and leaves state, failure_count and
\* last_failure_time unchanged.
C1_FailFastWhileOpen ==
    [][\A p \in Callers :
          (CallEnter(p) /\ state = OPEN /\ WithinRecoveryWindow)
             => /\ outcome'[p] = FailFast
                /\ attempts'[p] = 0
                /\ pc'[p] = "idle"
                /\ state' = state
                /\ failure_count' = failure_count
                /\ last_failure_time' = last_failure_time]_vars

C1_Witness ==
    /\ state = OPEN
    /\ WithinRecoveryWindow
    /\ \E p \in Callers : outcome[p] = FailFast /\ attempts[p] = 0 /\ pc[p] = "idle"

\* C2: the breaker goes to OPEN exactly on a recorded failure that leaves
\* failure_count at or above failure_threshold: a failure that leaves the count
\* below the threshold does not change the state, a failure that reaches the
\* threshold leaves the breaker OPEN, and nothing else opens it.
C2_OpensExactlyAtThreshold ==
    [][/\ \A p \in Callers :
             OpFailure(p) =>
                /\ failure_count' = failure_count + 1
                /\ (failure_count' < failure_threshold => state' = state)
                /\ (failure_count' >= failure_threshold => state' = OPEN)
       /\ (state # OPEN /\ state' = OPEN) =>
             /\ \E p \in Callers : OpFailure(p)
             /\ failure_count' >= failure_threshold]_vars

C2_Witness ==
    /\ state = OPEN
    /\ failure_count = failure_threshold
    /\ <<CLOSED, OPEN>> \in transitions
    /\ \E p \in Callers : outcome[p].kind = "CircuitBreakerOpenError" /\ outcome[p].cause # "-"

\* C3: when the breaker is OPEN and at least recovery_timeout has elapsed since
\* last_failure_time, the next call sets the state to HALF_OPEN and invokes the
\* wrapped operation exactly once.
C3_HalfOpenAfterRecovery ==
    /\ [][\A p \in Callers :
             (CallEnter(p) /\ state = OPEN /\ RecoveryWindowElapsed)
                => /\ state' = HALF_OPEN
                   /\ pc'[p] = "running"
                   /\ attempts'[p] = 1]_vars
    /\ [][\A p \in Callers :
             (pc[p] = "running" /\ ~CallEnter(p)) => attempts'[p] = attempts[p]]_vars
    /\ [](\A p \in Callers : pc[p] = "running" => attempts[p] = 1)

C3_Witness ==
    /\ state = HALF_OPEN
    /\ <<OPEN, HALF_OPEN>> \in transitions
    /\ last_failure_time # NoTime
    /\ now - last_failure_time = recovery_timeout
    /\ \E p \in Callers : pc[p] = "running" /\ attempts[p] = 1

AllowedTransitions ==
    {<<CLOSED, OPEN>>, <<OPEN, HALF_OPEN>>, <<HALF_OPEN, CLOSED>>, <<HALF_OPEN, OPEN>>}

\* C4: under every interleaving of concurrent calls the only changes of state
\* are CLOSED->OPEN, OPEN->HALF_OPEN, HALF_OPEN->CLOSED and HALF_OPEN->OPEN.
C4_OnlyAllowedTransitions ==
    [][state' # state => <<state, state'>> \in AllowedTransitions]_vars

C4_Witness ==
    /\ transitions = AllowedTransitions
    /\ state = CLOSED

\* C16: when the wrapped operation returns, failure_count is reset to 0 and
\* the state becomes CLOSED if it was HALF_OPEN; a success seen in any other
\* state leaves the state as it is.
C16_SuccessResets ==
    [][\A p \in Callers :
          OpSuccess(p) =>
             /\ failure_count' = 0
             /\ outcome'[p] = Returned
             /\ state = HALF_OPEN => state' = CLOSED
             /\ state # HALF_OPEN => state' = state]_vars

C16_Witness ==
    /\ state = CLOSED
    /\ failure_count = 0
    /\ last_failure_time # NoTime
    /\ <<HALF_OPEN, CLOSED>> \in transitions
    /\ \E p \in Callers : outcome[p] = Returned

\* C17: when the wrapped operation times out or raises, failure_count grows by
\* exactly one and last_failure_time becomes the current time; if the count is
\* then at or above failure_threshold the call fails with
\* CircuitBreakerOpenError caused by the triggering error, otherwise the caller
\* gets the original error.
C17_FailureAccounting ==
    [][\A p \in Callers :
          OpFailure(p) =>
             /\ failure_count' = failure_count + 1
             /\ last_failure_time' = now
             /\ failure_count' >= failure_threshold
                   => /\ outcome'[p].kind = "CircuitBreakerOpenError"
                      /\ outcome'[p].cause \in Failures
             /\ failure_count' < failure_threshold
                   => /\ outcome'[p].kind \in Failures
                      /\ outcome'[p].cause = "-"]_vars

C17_Witness ==
    /\ failure_count = failure_threshold
    /\ last_failure_time = now
    /\ \E p, q \in Callers :
          /\ outcome[p] = Tripped("TimeoutError")
          /\ outcome[q] = Reraised("Exception")

\* C24: the lock is held only for the bookkeeping blocks, never while the
\* wrapped operation runs: a call can pass its state check whatever operations
\* are in flight, an operation in flight can complete and be accounted for
\* whatever else is in flight, and two operations can be in flight at once.
C24_LockOnlyForBookkeeping ==
    \A p \in Callers :
        /\ (pc[p] = "idle" /\ ncalls < MaxCalls) => ENABLED CallEnter(p)
        /\ pc[p] = "running" => (ENABLED OpSuccess(p) /\ ENABLED OpFailure(p))

C24_Witness ==
    /\ state = CLOSED
    /\ \A p \in Callers : pc[p] = "running" /\ admitted_in[p] = CLOSED

\* C27: the failure of a call that was admitted while the breaker was
\* HALF_OPEN leaves the breaker OPEN, under every interleaving.
C27_HalfOpenFailureReopens ==
    [][\A p \in Callers :
          (OpFailure(p) /\ admitted_in[p] = HALF_OPEN) => state' = OPEN]_vars

\* C28: whenever the breaker is OPEN, failure_count is at least
\* failure_threshold and last_failure_time is set.
C28_OpenImpliesThresholdReached ==
    state = OPEN => (failure_count >= failure_threshold /\ last_failure_time # NoTime)

InFlight == {p \in Callers : pc[p] = "running"}

\* C29: while the breaker is HALF_OPEN at most one operation admitted in
\* HALF_OPEN is in flight: a call arriving after the OPEN to HALF_OPEN
\* transition and before the trial finishes does not invoke the operation.
C29_SingleTrialInFlight ==
    state = HALF_OPEN => Cardinality({p \in InFlight : admitted_in[p] = HALF_OPEN}) <= 1

\* C29 as amended: a call that finds the breaker HALF_OPEN is admitted and
\* invokes the wrapped operation once, whatever is already in flight; the
\* breaker stays HALF_OPEN.
C29_HalfOpenAdmitsEveryCall ==
    [][\A p \in Callers :
          (CallEnter(p) /\ state = HALF_OPEN)
             => /\ pc'[p] = "running"
                /\ attempts'[p] = 1
                /\ state' = HALF_OPEN]_vars

C29_Witness ==
    /\ state = HALF_OPEN
    /\ Cardinality({p \in InFlight : admitted_in[p] = HALF_OPEN}) >= 2

----------------------------------------------------------------------------
(* Properties of validate_safety, checked under SpecSafety *)

allergy_outcome == gathered[1]
ddi_outcome == gathered[2]
dosage_outcome == gathered[3]
controlled_outcome == gathered[4]

Aggregated == safety.status # "not_run"

HasErrorFinding(c) ==
    \E k \in 1..Len(safety.findings) :
        safety.findings[k].check = c /\ safety.findings[k].error # Absent

BlockedPolicy ==
    \/ allergy_outcome.exception = "" /\ allergy_outcome.severity = "major"
    \/ ddi_outcome.exception = "" /\ ddi_outcome.severity = "major"
    \/ allergy_outcome.exception # ""

\* C5: for every combination of outcomes of the four checks there is a
\* SafetyResult, whose blocked is true iff the allergy check yields major, or
\* the interaction check yields major, or the allergy check failed, and whose
\* passed is the negation of blocked.
C5_BlockedIffMajorOrAllergyFailure ==
    Aggregated =>
        /\ safety.status = "returned"
        /\ safety.blocked <=> BlockedPolicy
        /\ safety.passed <=> ~safety.blocked

\* C6: whenever a SafetyResult is returned, escalation_required is true iff
\* blocked is false and at least one of the four checks yields moderate.
C6_EscalationIffModerateAndNotBlocked ==
    safety.status = "returned" =>
        (safety.escalation_required <=>
            /\ ~safety.blocked
            /\ \E i \in 1..4 : gathered[i].exception = "" /\ gathered[i].severity = "moderate")

\* C7: whenever a SafetyResult is returned: if the allergy check failed or the
\* allergy list could not be fetched, the result carries an error finding for
\* allergy and is blocked; if the interaction check failed, the result carries
\* an error finding for it and that failure alone does not block.
C7_AllergyFailClosedInteractionFailOpen ==
    safety.status = "returned" =>
        /\ (allergy_outcome.exception # "" \/ ~ehr.allergies_ok)
              => (safety.blocked /\ HasErrorFinding("allergy"))
        /\ ddi_outcome.exception # ""
              => /\ HasErrorFinding("ddi")
                 /\ safety.blocked =>
                       \/ allergy_outcome.exception # ""
                       \/ allergy_outcome.severity = "major"

\* C8: validate_safety always yields a SafetyResult: no exception escapes it,
\* whatever the outcomes of the checks and the shape of the drug information.
C8_AlwaysYieldsSafetyResult ==
    safety.status # "raised"

----------------------------------------------------------------------------
(* Properties of the workflow, checked under SpecWF *)

\* the workflow state of the design that a graph position stands for
wf_state ==
    CASE node = "collect_request" -> "collecting"
      [] node = "classify_intent" -> "classifying"
      [] node = "extract_entities" -> "extracting"
      [] node = "safety_check" -> "checking_safety"
      [] node = "escalate" -> "escalated"
      [] node = "dispense" -> "dispensed"
      [] node = END /\ via \in {"circuit_breaker", "safe_exit"} -> "rejected"
      [] OTHER -> "fault"

\* C9: whenever the classification confidence is below 0.70, whatever the
\* intent, the workflow goes from classifying to rejected, which is terminal,
\* so that run reaches neither extracting, checking_safety nor dispensed
\* afterwards; a confidence of exactly 0.70 is not rejected on this ground.
C9_LowConfidenceRejected ==
    /\ [][(node = "classify_intent" /\ Len(intents') = Len(intents) + 1)
            => /\ confidence' < confidence_threshold => wf_state' = "rejected"
               /\ confidence' >= confidence_threshold => via' # "circuit_breaker"]_vars
    /\ []((confidence # NoConfidence /\ confidence < confidence_threshold)
            => wf_state = "rejected")
    /\ [][wf_state = "rejected" => wf_state' = "rejected"]_vars

C9_Witness ==
    /\ wf_state = "rejected"
    /\ confidence = 40
    /\ intents[Len(intents)] = "RequestRefill"
    /\ via = "circuit_breaker"

\* C10: after the safety check has produced a SafetyResult the workflow goes to
\* rejected if blocked is true, to escalated if blocked is false and
\* escalation_required is true, and to dispensed otherwise.
C10_RoutedBySafetyResult ==
    [][(node = "safety_check" /\ safety'.status = "returned" /\ steps' = steps + 1)
          => wf_state' = IF safety'.blocked THEN "rejected"
                         ELSE IF safety'.escalation_required THEN "escalated"
                         ELSE "dispensed"]_vars

\* C11: after extraction, if any of patient_id, drug_name, dose, quantity is
\* missing from the entities the workflow returns to collecting and does not
\* enter checking_safety; it enters checking_safety only with all four present.
C11_MissingSlotReprompts ==
    /\ [][(node = "extract_entities" /\ current_step' = "entities_extracted"
             /\ steps' = steps + 1)
            => /\ ~(RequiredSlots \subseteq entities')
                    => (wf_state' = "collecting" /\ via' = "clarify")
               /\ (RequiredSlots \subseteq entities') => wf_state' = "checking_safety"]_vars
    /\ [](wf_state = "checking_safety" => RequiredSlots \subseteq entities)

C11_Witness ==
    /\ wf_state = "collecting"
    /\ via = "clarify"
    /\ current_step = "entities_extracted"
    /\ entities = RequiredSlots \ {"quantity"}

\* C12: for every completion order of the four checks, the findings of a
\* returned SafetyResult are exactly four, one per check, in the order allergy,
\* interaction, dosage, controlled substance, a failed check being an
\* error-tagged finding at its position.
C12_FourFindingsInFixedOrder ==
    safety.status = "returned" =>
        /\ Len(safety.findings) = 4
        /\ \A i \in 1..4 :
              /\ gathered[i].exception = "" => safety.findings[i] = gathered[i]
              /\ gathered[i].exception # "" => safety.findings[i].error # Absent

\* what each check yields for the inputs of this invocation
OwnOutcome(i) ==
    CASE i = 1 -> check_allergies(patient_data, drug_info, xref)
      [] i = 2 -> check_drug_interactions(patient_data, drug_info, ddi_db)
      [] i = 3 -> check_dosage(drug_info, requested_dose)
      [] i = 4 -> check_controlled_substance(drug_info)

Failed(o) == o # Pending /\ o.exception # ""

\* C13: the gather of the N = 4 checks yields one outcome per check, each in the
\* slot of the check that produced it, exactly as many failure-tagged as checks
\* that fail, and the same outcomes whatever the order of completion.
C13_OneOutcomePerCheck ==
    /\ Len(gathered) = 4
    /\ \A i \in 1..4 : gathered[i] \in {Pending, OwnOutcome(i)}
    /\ (\A i \in 1..4 : gathered[i] # Pending) =>
          /\ gathered = [i \in 1..4 |-> OwnOutcome(i)]
          /\ Cardinality({i \in 1..4 : Failed(gathered[i])})
               = Cardinality({i \in 1..4 : OwnOutcome(i).exception # ""})

\* the last check has completed before the first, two of the four have failed
C13_Witness ==
    /\ gathered[1] = Pending
    /\ \A i \in 2..4 : gathered[i] # Pending
    /\ Cardinality({i \in 1..4 : Failed(gathered[i])}) = 2
    /\ OwnOutcome(1).exception = ""

\* C14: a check that fails leaves every sibling as it is, pending siblings stay
\* pending and completed outcomes are never altered, and the aggregation starts
\* only when all four checks have completed or failed.
C14_FailureIsolation ==
    [][/\ \A i \in 1..4 :
             \/ gathered'[i] = gathered[i]
             \/ /\ gathered[i] = Pending
                /\ \A k \in 1..4 \ {i} : gathered'[k] = gathered[k]
       /\ safety' # safety => \A i \in 1..4 : gathered[i] # Pending]_vars

\* the dosage check has failed, two siblings are still pending and a third
\* keeps its successful outcome
C14_Witness ==
    /\ Failed(gathered[3])
    /\ gathered[1] = Pending
    /\ gathered[4] = Pending
    /\ gathered[2] # Pending /\ gathered[2].exception = ""

\* C18: a CancelRequest classified with confidence of at least 0.70 takes the
\* workflow from classifying to the end of the run without a fault.
C18_CancelEndsRun ==
    [][(/\ node = "classify_intent"
        /\ Len(intents') = Len(intents) + 1
        /\ intents'[Len(intents')] = "CancelRequest"
        /\ confidence' >= confidence_threshold)
          => (node' = END /\ error' = "")]_vars

\* C19: the breaker of the patient data source is built once and keeps
\* failure_count and state across runs: its failure_count is the number of
\* consecutive failed fetches of the successive runs, and after
\* failure_threshold of them a fetch made within the recovery window fails fast
\* without contacting the data source.
C19_BreakerOutlivesRuns ==
    /\ [](failure_count = failed_fetches)
    /\ [][(/\ failed_fetches >= failure_threshold
           /\ WithinRecoveryWindow
           /\ ncalls' # ncalls \/ failed_fetches' # failed_fetches)
             => (outcome'[1] = FailFast /\ attempts'[1] = 0)]_vars

\* C21: when classify_intent_node or extract_entities_node raises, the workflow
\* goes back to collecting; the exception neither ends the run nor reaches the
\* caller of the workflow.
C21_NodeFailureReprompts ==
    [][(node \in {"classify_intent", "extract_entities"} /\ steps' = steps + 1)
          => /\ ~(node' = "raised" /\ error' = "OrchestratorError")
             /\ (current_step' = current_step /\ intents' = intents /\ entities' = entities)
                   => wf_state' = "collecting"]_vars

Unparsable(dose) == dose.is_str /\ ~dose_match(dose.chars).matched

\* C22: a requested dose that does not parse as a number and a unit gives a
\* dosage outcome of severity error, validate_safety does not raise because of
\* it, and the error outcome is among the findings of the SafetyResult.
C22_MalformedDoseIsAFinding ==
    (Unparsable(requested_dose) /\ dosage_outcome # Pending) =>
        /\ dosage_outcome.exception = ""
        /\ dosage_outcome.severity = "error"
        /\ safety.status = "returned" =>
              \E k \in 1..Len(safety.findings) : safety.findings[k] = dosage_outcome

\* C23: a later call of the trigger for the same conversation_id starts at
\* collecting with the slots the earlier call had gathered still present.
C23_LaterCallResumes ==
    [][calls' = calls + 1
          => /\ wf_state' = "collecting"
             /\ entities \subseteq entities']_vars

TerminalStates == {"escalated", "dispensed", "rejected"}

\* C26: a run whose external calls all return ends in escalated, dispensed or
\* rejected.
C26_RunEndsInTerminalState ==
    (RunOver /\ error # "OrchestratorError") => wf_state \in TerminalStates

====
